---- MODULE Spec2Model ----
(***************************************************************************)
(* mtls (Mutual TLS) client, src/mtls.py.                                  *)
(*                                                                         *)
(* One invocation of the command line program is one process: it builds a *)
(* MutualTLS object (__init__, server_in_config) and calls run(), which    *)
(* resolves the user's key (get_key_or_generate), builds a CSR             *)
(* (generate_csr) and seals and posts it (encrypt_and_send_to_server).     *)
(* Invocations share the sealed key file, the configuration file and the   *)
(* GnuPG keyring.  The GnuPG, cryptography, configparser and requests      *)
(* libraries are modelled by what their calls return or raise.             *)
(***************************************************************************)
EXTENDS Integers, Sequences, FiniteSets, TLC

\* Number of invocations of the program in one behaviour.
NumInv == 2

Inv == 1..NumInv

----------------------------------------------------------------------------
\* Values

\* Python's None (the key, the CSR, os.environ.get's default).
None == "None"

\* The options of one server section of config.ini.
SubjectFields == <<"country", "state", "locality", "organization_name", "common_name">>

SubjectSet == {SubjectFields[i] : i \in 1..Len(SubjectFields)}

AllFields == SubjectSet \cup {"email", "url", "fingerprint", "server_fingerprint"}

\* configparser's default section name.
DEFAULTSECT == "DEFAULT"

\* The value of --server: absent, a configured name, or the default section's name.
ServerChoices == {None, "ca1", "ca2", DEFAULTSECT}

\* The named sections config.ini may hold.
SectionChoices == {{}, {"ca1"}, {"ca1", "ca2"}}

\* The options the section "ca1" may hold: all, all but one, or none.
OptionChoices == {AllFields} \cup {AllFields \ {f} : f \in AllFields}

\* The options a [DEFAULT] header may hold (none when there is no such header).
DefaultChoices == {{}, {"email"}}

\* The fingerprints the GnuPG keyring may hold public keys for.
KeyringChoices == SUBSET {"fingerprint", "server_fingerprint"}

\* The values os.environ.get('HOST', None) may give.
HostHints == {None, "myhost"}

\* What the network exchange may do.
NetOutcomes == {"ok", "unreachable", "badbody"}

\* The RSA key a keypair generation of invocation p yields (each one fresh);
\* Key(0) is the key of an earlier run.
Key(p) == "key" \o ToString(p)

\* The key file: absent, empty text, or the text of a PGP message.
NoFile == [kind |-> "absent"]

EmptyStr == [kind |-> "empty"]

\* Exceptions: none raised, or the type, the stage of run() that raised it, and its argument.
NoErr == [type |-> None, stage |-> None, arg |-> None]

Raise(type, stage, arg) == [type |-> type, stage |-> stage, arg |-> arg]

VARIABLES
    config,     \* config.ini as ConfigParser holds it: section -> set of options
    server,     \* self.server, the --server option
    keyring,    \* the fingerprints GnuPG can encrypt to
    keyFile,    \* content of CONFIG_FOLDER_PATH/USER_KEY
    pc,         \* where each invocation stands
    existed,    \* what os.path.isfile(key_path) answered: "unknown", "yes", "no"
    fileAtCheck,\* the key file's content when os.path.isfile was asked
    ops,        \* the side effects each invocation has performed
    key_data,   \* get_key_or_generate: the result of gpg.decrypt_file
    encrypted_key, \* get_key_or_generate: the result of self.encrypt(key_data, ...)
    key,        \* run(): key
    csr,        \* run(): csr
    enc_csr,    \* encrypt_and_send_to_server: the result of self.encrypt(csr, ...)
    posted,     \* the HTTP POSTs each invocation has attempted
    net,        \* what the network did to the last POST
    err,        \* the exception that ended the invocation
    warned      \* whether the 'multiple servers' message was echoed

vars == <<config, server, keyring, keyFile, pc, existed, fileAtCheck, ops, key_data,
          encrypted_key, key, csr, enc_csr, posted, net, err, warned>>

----------------------------------------------------------------------------
\* configparser

\* config.sections(): the named sections, the default section excluded.
Sections == DOMAIN config \ {DEFAULTSECT}

\* config.get(section, option, fallback=...): never raises.
ConfigGetFallback(section, option) ==
    [exc |-> None, value |-> [section |-> section, option |-> option]]

\* config.get(section, option): the section's own value, else the default
\* section's, else NoOptionError; NoSectionError for an unknown section.
ConfigGet(section, option) ==
    IF section \notin DOMAIN config
    THEN [exc |-> "NoSectionError", value |-> [section |-> section, option |-> None]]
    ELSE IF option \in config[section]
    THEN [exc |-> None, value |-> [section |-> section, option |-> option]]
    ELSE IF option \in config[DEFAULTSECT]
    THEN [exc |-> None, value |-> [section |-> DEFAULTSECT, option |-> option]]
    ELSE [exc |-> "NoOptionError", value |-> [section |-> section, option |-> option]]

\* `k in config` (ConfigParser.__contains__): the default section's name is
\* always contained, whether or not the file has a [DEFAULT] header.
InConfig(k) == k = DEFAULTSECT \/ k \in Sections

----------------------------------------------------------------------------
\* cryptography

\* key.private_bytes(PEM, TraditionalOpenSSL, NoEncryption()).
PrivateBytes(k) == [kind |-> "pem_private_key", key |-> k]

\* serialization.load_pem_private_key(data): the key, or ValueError.
LoadPemPrivateKey(data) ==
    IF data.kind = "pem_private_key"
    THEN [exc |-> None, key |-> data.key]
    ELSE [exc |-> "ValueError", key |-> None]

\* x509.CertificateSigningRequestBuilder().subject_name(x509.Name([...])).sign(key, SHA256).
BuildCsr(subject, k) ==
    [subject |-> subject, public_key |-> k, signature |-> [key |-> k, digest |-> "SHA256"]]

\* csr.public_bytes(serialization.Encoding.PEM).
PublicBytes(c) == [kind |-> "pem_csr", csr |-> c]

----------------------------------------------------------------------------
\* gnupg

\* The result object of a call never made.
NoResult == [ok |-> FALSE, data |-> [kind |-> None]]

\* gpg.encrypt(data, recipient, sign=sign): a result object, never an
\* exception; on failure (recipient not in the keyring, or gpg failing) ok is
\* False and the data is empty.
GpgEncrypt(data, recipient, sign, fault) ==
    IF recipient.option \in keyring /\ ~fault
    THEN [ok |-> TRUE,
          data |-> [kind |-> "pgp", payload |-> data, to |-> recipient, signed |-> sign]]
    ELSE [ok |-> FALSE, data |-> EmptyStr]

\* gpg.decrypt_file(file): a result object, never an exception; on failure
\* (no PGP message in the file, secret key or passphrase missing) ok is False
\* and the data is empty.
GpgDecryptFile(content, fault) ==
    IF content.kind = "pgp" /\ ~fault
    THEN [ok |-> TRUE, data |-> content.payload]
    ELSE [ok |-> FALSE, data |-> EmptyStr]

\* str(result): the result's data as text.
Str(result) == result.data

\* self.encrypt(data, recipient, sign=False).
Encrypt(data, recipient, sign, fault) == GpgEncrypt(data, recipient, sign, fault)

----------------------------------------------------------------------------
\* files

\* A mode that truncates the file it opens.
ReadModeTruncating == "w"

\* The mode get_key_or_generate opens the existing key file with.
ReadMode == "rb"

\* The mode get_key_or_generate opens the key file with to write it.
WriteMode == "w"

\* open(key_path, mode): the file's content once opened ('w' creates or truncates).
OpenEffect(content, mode) == IF mode = "w" THEN EmptyStr ELSE content

----------------------------------------------------------------------------
\* The state after the shell has started the invocations: none has run yet.
\* The key file is absent, or holds what an earlier run sealed.

Init ==
    /\ \E S \in SectionChoices, d \in DefaultChoices, o \in OptionChoices :
          config = [s \in S \cup {DEFAULTSECT} |->
                       IF s = DEFAULTSECT THEN d ELSE IF s = "ca1" THEN o ELSE AllFields]
    /\ server \in ServerChoices
    /\ keyring \in KeyringChoices
    /\ keyFile \in {NoFile,
                    [kind |-> "pgp", payload |-> PrivateBytes(Key(0)),
                     to |-> [section |-> "ca1", option |-> "fingerprint"], signed |-> FALSE]}
    /\ pc = [p \in Inv |-> "main"]
    /\ existed = [p \in Inv |-> "unknown"]
    /\ fileAtCheck = [p \in Inv |-> NoFile]
    /\ ops = [p \in Inv |-> {}]
    /\ key_data = [p \in Inv |-> NoResult]
    /\ encrypted_key = [p \in Inv |-> NoResult]
    /\ key = [p \in Inv |-> None]
    /\ csr = [p \in Inv |-> BuildCsr(<<>>, None)]
    /\ enc_csr = [p \in Inv |-> NoResult]
    /\ posted = [p \in Inv |-> <<>>]
    /\ net = [p \in Inv |-> None]
    /\ err = [p \in Inv |-> NoErr]
    /\ warned = [p \in Inv |-> FALSE]

\* An uncaught exception ends the invocation.
Fail(p, e) ==
    /\ pc' = [pc EXCEPT ![p] = "failed"]
    /\ err' = [err EXCEPT ![p] = e]

Did(p, what) == ops' = [ops EXCEPT ![p] = @ \cup what]

----------------------------------------------------------------------------
\* main -> MutualTLS.__init__ -> server_in_config

Construct(p) ==
    /\ pc[p] = "main"
    /\ warned' = [warned EXCEPT ![p] = (server = None /\ Cardinality(Sections) > 1)]
    /\ IF ~InConfig(server)
       THEN /\ pc' = [pc EXCEPT ![p] = "exit"]
            /\ err' = [err EXCEPT ![p] = Raise("SystemExit", "server_in_config", "1")]
       ELSE /\ pc' = [pc EXCEPT ![p] = "isfile"]
            /\ err' = err
    /\ UNCHANGED <<config, server, keyring, keyFile, existed, fileAtCheck, ops, key_data,
                   encrypted_key, key, csr, enc_csr, posted, net>>

----------------------------------------------------------------------------
\* get_key_or_generate

BranchAlwaysGenerate(exists) == "generate"

\* if os.path.isfile(key_path): ... else: ...
Branch(exists) == IF exists THEN "decrypt" ELSE "generate"

IsFile(p) ==
    /\ pc[p] = "isfile"
    /\ existed' = [existed EXCEPT ![p] = IF keyFile # NoFile THEN "yes" ELSE "no"]
    /\ fileAtCheck' = [fileAtCheck EXCEPT ![p] = keyFile]
    /\ pc' = [pc EXCEPT ![p] = Branch(keyFile # NoFile)]
    /\ UNCHANGED <<config, server, keyring, keyFile, ops, key_data, encrypted_key, key,
                   csr, enc_csr, posted, net, err, warned>>

\* The key file exists: open it, decrypt it, parse the decrypted text.
DecryptKey(p) ==
    /\ pc[p] = "decrypt"
    /\ keyFile # NoFile
    /\ keyFile' = OpenEffect(keyFile, ReadMode)
    /\ \E fault \in BOOLEAN :
          LET result == GpgDecryptFile(keyFile', fault)
              loaded == LoadPemPrivateKey(Str(result))
          IN  /\ key_data' = [key_data EXCEPT ![p] = result]
              /\ Did(p, {"read", "decrypt"})
              /\ IF loaded.exc # None
                 THEN /\ Fail(p, Raise(loaded.exc, "load_pem_private_key", None))
                      /\ key' = key
                 ELSE /\ key' = [key EXCEPT ![p] = loaded.key]
                      /\ pc' = [pc EXCEPT ![p] = "csr"]
                      /\ err' = err
    /\ UNCHANGED <<config, server, keyring, existed, fileAtCheck, encrypted_key, csr,
                   enc_csr, posted, net, warned>>

\* No key file: generate the key and seal it to the user's own fingerprint.
GenerateKey(p) ==
    /\ pc[p] = "generate"
    /\ LET fp == ConfigGet(server, "fingerprint")
           email == ConfigGet(server, "email")
       IN  IF fp.exc # None
           THEN /\ Did(p, {"generate"})
                /\ Fail(p, Raise(fp.exc, "get_key_or_generate", "fingerprint"))
                /\ encrypted_key' = encrypted_key
           ELSE \E fault \in BOOLEAN :
                /\ Did(p, {"generate", "seal"})
                /\ encrypted_key' = [encrypted_key EXCEPT ![p] =
                       Encrypt(PrivateBytes(Key(p)), fp.value, FALSE, fault)]
                /\ IF email.exc # None
                   THEN Fail(p, Raise(email.exc, "get_key_or_generate", "email"))
                   ELSE /\ pc' = [pc EXCEPT ![p] = "open"]
                        /\ err' = err
    /\ UNCHANGED <<config, server, keyring, keyFile, existed, fileAtCheck, key_data, key,
                   csr, enc_csr, posted, net, warned>>

\* with open(key_path, 'w') as f: the file is created or truncated, or open raises.
OpenKeyFile(p) ==
    /\ pc[p] = "open"
    /\ \E ok \in BOOLEAN :
          IF ok
          THEN /\ keyFile' = OpenEffect(keyFile, WriteMode)
               /\ pc' = [pc EXCEPT ![p] = "write"]
               /\ err' = err
          ELSE /\ Fail(p, Raise("OSError", "open", None))
               /\ keyFile' = keyFile
    /\ UNCHANGED <<config, server, keyring, existed, fileAtCheck, ops, key_data,
                   encrypted_key, key, csr, enc_csr, posted, net, warned>>

AfterWriteReread == "decrypt"

\* return key, after the else branch.
AfterWrite == "csr"

\* f.write(str(encrypted_key)), and the close at the end of the with block.
WriteKeyFile(p) ==
    /\ pc[p] = "write"
    /\ \E ok \in BOOLEAN :
          IF ok
          THEN /\ keyFile' = Str(encrypted_key[p])
               /\ Did(p, {"write"})
               /\ key' = [key EXCEPT ![p] = Key(p)]
               /\ pc' = [pc EXCEPT ![p] = AfterWrite]
               /\ err' = err
          ELSE /\ Fail(p, Raise("OSError", "write", None))
               /\ UNCHANGED <<keyFile, ops, key>>
    /\ UNCHANGED <<config, server, keyring, existed, fileAtCheck, key_data, encrypted_key,
                   csr, enc_csr, posted, net, warned>>

----------------------------------------------------------------------------
\* generate_csr

\* The subject options config.get raises for, in the order generate_csr reads them.
MissingSubject ==
    {i \in 1..Len(SubjectFields) : ConfigGet(server, SubjectFields[i]).exc # None}

GenerateCsr(p) ==
    /\ pc[p] = "csr"
    /\ IF MissingSubject # {}
       THEN LET i == CHOOSE j \in MissingSubject : \A k \in MissingSubject : j <= k
            IN  /\ Fail(p, Raise(ConfigGet(server, SubjectFields[i]).exc, "generate_csr",
                                 SubjectFields[i]))
                /\ UNCHANGED <<csr, ops>>
       ELSE /\ csr' = [csr EXCEPT ![p] =
                  BuildCsr([i \in 1..Len(SubjectFields) |->
                               ConfigGet(server, SubjectFields[i]).value], key[p])]
            /\ Did(p, {"sign"})
            /\ pc' = [pc EXCEPT ![p] = "seal"]
            /\ err' = err
    /\ UNCHANGED <<config, server, keyring, keyFile, existed, fileAtCheck, key_data,
                   encrypted_key, key, enc_csr, posted, net, warned>>

----------------------------------------------------------------------------
\* encrypt_and_send_to_server

\* enc_csr = self.encrypt(csr.public_bytes(PEM), server_fingerprint, sign=True)
SealCsr(p) ==
    /\ pc[p] = "seal"
    /\ LET sf == ConfigGet(server, "server_fingerprint")
       IN  IF sf.exc # None
           THEN /\ Fail(p, Raise(sf.exc, "encrypt_and_send_to_server", "server_fingerprint"))
                /\ UNCHANGED <<enc_csr, ops>>
           ELSE \E fault \in BOOLEAN :
                /\ enc_csr' = [enc_csr EXCEPT ![p] =
                       Encrypt(PublicBytes(csr[p]), sf.value, TRUE, fault)]
                /\ Did(p, {"seal_csr"})
                /\ pc' = [pc EXCEPT ![p] = "post"]
                /\ err' = err
    /\ UNCHANGED <<config, server, keyring, keyFile, existed, fileAtCheck, key_data,
                   encrypted_key, key, csr, posted, net, warned>>

\* The payload dictionary.
Payload(sealed, host) ==
    [csr |-> Str(sealed), lifetime |-> "18", host |-> host, type |-> "CREATE_CERTIFICATE"]

AfterPostRetry(outcome) == IF outcome = "ok" THEN "done" ELSE "post"

\* requests.post raises on a connection failure and r.json() on a body that is
\* not JSON; neither is caught, so either ends the invocation.
AfterPost(outcome) == IF outcome = "ok" THEN "done" ELSE "failed"

\* r = requests.post(server_url, json=payload); response = r.json()
Post(p) ==
    /\ pc[p] = "post"
    /\ LET url == ConfigGet(server, "url")
       IN  IF url.exc # None
           THEN /\ Fail(p, Raise(url.exc, "encrypt_and_send_to_server", "url"))
                /\ UNCHANGED <<posted, net, ops>>
           ELSE \E host \in HostHints, outcome \in NetOutcomes :
                /\ posted' = [posted EXCEPT ![p] =
                       Append(@, [url |-> url.value, environ_host |-> host,
                                  json |-> Payload(enc_csr[p], host)])]
                /\ net' = [net EXCEPT ![p] = outcome]
                /\ Did(p, {"post"})
                /\ pc' = [pc EXCEPT ![p] = AfterPost(outcome)]
                /\ err' = [err EXCEPT ![p] =
                       CASE outcome = "ok" -> NoErr
                         [] outcome = "unreachable" -> Raise("ConnectionError", "post", None)
                         [] outcome = "badbody" -> Raise("JSONDecodeError", "json", None)]
    /\ UNCHANGED <<config, server, keyring, keyFile, existed, fileAtCheck, key_data,
                   encrypted_key, key, csr, enc_csr, warned>>

----------------------------------------------------------------------------
\* One step of invocation p.
Step(p) ==
    \/ Construct(p)
    \/ IsFile(p)
    \/ DecryptKey(p)
    \/ GenerateKey(p)
    \/ OpenKeyFile(p)
    \/ WriteKeyFile(p)
    \/ GenerateCsr(p)
    \/ SealCsr(p)
    \/ Post(p)

Ended(p) == pc[p] \in {"done", "failed", "exit"}

\* Invocations of the same user for the same, fully configured server, running
\* at the same time: any of them takes the next step.
InitConcurrent ==
    /\ Init
    /\ config = [s \in {"ca1", DEFAULTSECT} |-> IF s = "ca1" THEN AllFields ELSE {}]
    /\ server = "ca1"
    /\ keyring = {"fingerprint", "server_fingerprint"}

NextConcurrent == \E p \in Inv : Step(p)

SpecConcurrent == InitConcurrent /\ [][NextConcurrent]_vars

\* Invocation p's turn when invocations run one after the other, as a user at
\* one shell runs them.
Turn(p) == \A q \in Inv : q < p => Ended(q)

Next ==
    \E p \in Inv :
        \/ Turn(p) /\ Construct(p)
        \/ Turn(p) /\ IsFile(p)
        \/ Turn(p) /\ DecryptKey(p)
        \/ Turn(p) /\ GenerateKey(p)
        \/ Turn(p) /\ OpenKeyFile(p)
        \/ Turn(p) /\ WriteKeyFile(p)
        \/ Turn(p) /\ GenerateCsr(p)
        \/ Turn(p) /\ SealCsr(p)
        \/ Turn(p) /\ Post(p)

Spec == Init /\ [][Next]_vars

----------------------------------------------------------------------------
\* Properties

\* The side effects of key resolution among those an invocation performed.
ResolveOps(p) == ops[p] \cap {"read", "decrypt", "generate", "seal", "write"}

\* get_key_or_generate returned to run().
Returned(p) == key[p] # None

\* The key file holds a complete sealed blob wrapping a private key, addressed
\* to the user's own fingerprint.
SealedKeyFile ==
    /\ keyFile.kind = "pgp"
    /\ keyFile.payload.kind = "pem_private_key"
    /\ keyFile.to.option = "fingerprint"

\* C1: whenever no invocation is between opening and closing the key file, a
\* key file that exists is a complete sealed blob wrapping the private key,
\* addressed to the user's own fingerprint; this whatever the seal or the
\* write did.
C1_KeyFileSealedAtRest ==
    (\A p \in Inv : pc[p] # "write") => (keyFile # NoFile => SealedKeyFile)

C3_DecryptionError ==
    \A p \in Inv :
        (server \in Sections /\ "decrypt" \in ops[p] /\ ~key_data[p].ok) =>
            /\ pc[p] = "failed"
            /\ err[p].stage = "decrypt_file"
            /\ err[p].stage # "load_pem_private_key"
            /\ keyFile = fileAtCheck[p]
            /\ "generate" \notin ops[p]
            /\ ops[p] \cap {"sign", "seal_csr", "post"} = {}

\* C4: a failed seal of the CSR is never followed by a POST, and the csr field
\* of every POST is a sealed and signed CSR.
C4_NoPostAfterFailedSeal ==
    \A p \in Inv :
        /\ ("seal_csr" \in ops[p] /\ ~enc_csr[p].ok) => posted[p] = <<>>
        /\ \A i \in DOMAIN posted[p] :
              /\ posted[p][i].json.csr.kind = "pgp"
              /\ posted[p][i].json.csr.signed

\* C5: calls of get_key_or_generate that found the key file leave it as they
\* found it, and those of them that return, return the same key: the one the
\* file wraps.
C5_ResolveIdempotent ==
    /\ \A p \in Inv : existed[p] = "yes" => keyFile = fileAtCheck[p]
    /\ \A p, q \in Inv :
          (existed[p] = "yes" /\ existed[q] = "yes" /\ Returned(p) /\ Returned(q))
              => key[p] = key[q]
    /\ \A p \in Inv :
          (existed[p] = "yes" /\ Returned(p)) => PrivateBytes(key[p]) = keyFile.payload

\* C5 witness: two invocations found the key file and both returned a key.
C5_Witness ==
    \E p, q \in Inv :
        /\ p # q
        /\ existed[p] = "yes" /\ Returned(p)
        /\ existed[q] = "yes" /\ Returned(q)

\* A subject attribute the identity record of the selected server lacks.
AbsentSubject ==
    IF server \in DOMAIN config
    THEN {f \in SubjectSet : f \notin config[server] \cup config[DEFAULTSECT]}
    ELSE {}

\* C6: when a subject attribute is absent, generate_csr fails naming an absent
\* field (the first in the fixed order), nothing is signed, no CSR exists, and
\* neither the seal of the CSR nor the submission happens.
C6_MissingAttribute ==
    \A p \in Inv :
        AbsentSubject # {} =>
            /\ csr[p] = BuildCsr(<<>>, None)
            /\ ops[p] \cap {"sign", "seal_csr", "post"} = {}
            /\ posted[p] = <<>>
            /\ pc[p] \notin {"seal", "post", "done"}
            /\ Ended(p) /\ Returned(p) =>
                  /\ pc[p] = "failed"
                  /\ err[p].type = "NoOptionError"
                  /\ err[p].stage = "generate_csr"
                  /\ err[p].arg \in AbsentSubject
                  /\ \A i, j \in 1..Len(SubjectFields) :
                        (SubjectFields[i] = err[p].arg /\ j < i)
                            => SubjectFields[j] \notin AbsentSubject

\* C6 witness: generate_csr has failed on an absent subject attribute.
C6_Witness ==
    \E p \in Inv :
        /\ AbsentSubject # {}
        /\ pc[p] = "failed"
        /\ err[p].stage = "generate_csr"

\* C7: an invocation attempts at most one POST; when the endpoint is
\* unreachable or the body is not JSON the invocation ends with the transport
\* or parse error, and the sealed CSR still is what it was when it was sent.
C7_SinglePost ==
    \A p \in Inv :
        /\ Len(posted[p]) <= 1
        /\ net[p] \in {"unreachable", "badbody"} =>
              /\ pc[p] = "failed"
              /\ err[p].type = (IF net[p] = "unreachable" THEN "ConnectionError"
                                                            ELSE "JSONDecodeError")
              /\ Len(posted[p]) = 1
              /\ posted[p][1].json.csr = Str(enc_csr[p])

\* C7 witness: a POST to an unreachable endpoint has failed.
C7_Witness == \E p \in Inv : net[p] = "unreachable" /\ pc[p] = "failed"

\* C8: every POST goes to the configured url with exactly the fields csr,
\* lifetime, host and type: csr the CSR sealed to server_fingerprint and
\* signed, lifetime "18", type "CREATE_CERTIFICATE", host the HOST hint or null.
C8_PayloadShape ==
    \A p \in Inv : \A i \in DOMAIN posted[p] :
        LET r == posted[p][i]
        IN  /\ r.url = ConfigGet(server, "url").value
            /\ DOMAIN r.json = {"csr", "lifetime", "host", "type"}
            /\ r.json.lifetime = "18"
            /\ r.json.type = "CREATE_CERTIFICATE"
            /\ r.json.host = r.environ_host
            /\ r.json.csr = [kind |-> "pgp", payload |-> PublicBytes(csr[p]),
                             to |-> ConfigGet(server, "server_fingerprint").value,
                             signed |-> TRUE]

\* No server is selected, or the selected one has no section in config.ini.
NoIdentityRecord ==
    \/ server = None
    \/ server \notin Sections /\ ~(server = DEFAULTSECT /\ config[DEFAULTSECT] # {})

\* C9: without an identity record the invocation exits before any stage runs:
\* no key is read, generated or written, no CSR built or sealed, nothing posted.
C9_NoRecordIsFatal ==
    \A p \in Inv :
        NoIdentityRecord =>
            /\ ops[p] = {}
            /\ Ended(p) => pc[p] = "exit"

\* An invocation has submitted a CSR for a key other than the one the key
\* file holds sealed.
Diverged(p) ==
    /\ posted[p] # <<>>
    /\ keyFile.kind = "pgp"
    /\ keyFile.payload # PrivateBytes(csr[p].public_key)

\* C10: within one invocation the key file is read or written, never both;
\* and an invocation's submitted key differs from the sealed one only after
\* a race: at least two invocations saw no key file, and another invocation
\* that saw none wrote its own key last.
C10_UncoordinatedGenerate ==
    \A p \in Inv :
        /\ ~("read" \in ops[p] /\ "write" \in ops[p])
        /\ posted[p] # <<>> => csr[p].public_key = key[p]
        /\ Diverged(p) =>
              /\ Cardinality({r \in Inv : existed[r] = "no"}) >= 2
              /\ \E q \in Inv \ {p} :
                    /\ existed[q] = "no"
                    /\ "write" \in ops[q]
                    /\ keyFile.payload = PrivateBytes(Key(q))

\* C10 witness: two invocations both took the generate path, the later write
\* replaced the earlier one, and the earlier writer submitted its own key.
C10_Witness ==
    \E p, q \in Inv :
        /\ p # q
        /\ existed[p] = "no" /\ existed[q] = "no"
        /\ "write" \in ops[p] /\ "write" \in ops[q]
        /\ Diverged(p)
        /\ pc[p] = "done"

====
